---- MODULE Spec2Model ----
(***************************************************************************)
(* Model of the two utilities of the repository:                           *)
(*   stat_base_content.py  per-position base frequencies of a FASTQ file,  *)
(*                         the table file and the charts (main);           *)
(*   star_format.py        the table combining STAR *.final.out summaries. *)
(* One invocation of one of the two scripts runs at a time (prog).         *)
(* A run of stat_base_content.py in FASTQ mode on a fresh output prefix    *)
(* may be followed by runs in --table_input mode over the table it wrote.  *)
(***************************************************************************)
EXTENDS Integers, Sequences, FiniteSets, TLC

\* ---- bounds of the model ----
MaxLen   == 2   \* longest read sequence
MaxReads == 2   \* most records in the FASTQ file
MaxN     == 2   \* largest --num_bases
MaxPos   == 3   \* most values after -s
MaxFiles == 2   \* most entries in the directory
MaxLines == 2   \* most lines in a summary file

\* ---- stat_base_content.py : values ----

\* 'ATCGN', the keys of base_counts in insertion order (the table's columns)
Alphabet == <<"A", "T", "C", "G", "N">>

Bases == {Alphabet[k] : k \in 1..Len(Alphabet)}

\* characters a record's sequence is drawn from; "a" is outside 'ATCGN'
InputSymbols == {"A", "T", "a"}

SeqsUpTo(S, n) == UNION {[1..k -> S] : k \in 0..n}

Records == SeqsUpTo(InputSymbols, MaxLen)

Min(a, b) == IF a < b THEN a ELSE b

RECURSIVE Gcd(_, _)
Gcd(a, b) == IF b = 0 THEN a ELSE Gcd(b, a % b)

\* the number count / float(total), kept as a fraction in lowest terms
Quot(count, total) ==
    LET g == Gcd(count, total) IN [num |-> count \div g, den |-> total \div g]

Zero == [num |-> 0, den |-> 1]

\* count / float(total) if total > 0 else 0
Freq(count, total) == IF total > 0 THEN Quot(count, total) ELSE Zero

Zeros(n) == [i \in 1..n |-> 0]

\* the tally with the sequence upper-cased first: "a" counts as "A"
TallyCountsFolded(counts, sequence, n) ==
    [b \in Bases |->
        [i \in 1..n |->
            IF /\ i <= Min(n, Len(sequence))
               /\ (sequence[i] = b \/ (sequence[i] = "a" /\ b = "A"))
            THEN counts[b][i] + 1 ELSE counts[b][i]]]

\* the body of "for record in SeqIO.parse(...)": the tally of one record.
\* Python position i is index i + 1 of the TLA+ sequences.
TallyCounts(counts, sequence, n) ==
    [b \in Bases |->
        [i \in 1..n |->
            IF i <= Min(n, Len(sequence)) /\ sequence[i] = b
            THEN counts[b][i] + 1 ELSE counts[b][i]]]

\* the tally with line 47 moved out of the "if base in base_counts"
TallyTotalAnySymbol(total, sequence, n) ==
    [i \in 1..n |->
        IF i <= Min(n, Len(sequence)) THEN total[i] + 1 ELSE total[i]]

TallyTotal(total, sequence, n) ==
    [i \in 1..n |->
        IF i <= Min(n, Len(sequence)) /\ sequence[i] \in Bases
        THEN total[i] + 1 ELSE total[i]]

\* base_freqs and pd.DataFrame(base_freqs): a RangeIndex 0..n-1 and one
\* column per base
BaseFreqs(counts, total) ==
    [b \in Bases |-> [i \in 1..Len(total) |-> Freq(counts[b][i], total[i])]]

DataFrame(freqs, n) ==
    [index |-> [i \in 1..n |-> i - 1], data |-> freqs]

NoFrame == [index |-> <<-1>>, data |-> <<>>]

NRows(df) == Len(df.index)

\* ---- the table file: DataFrame.to_csv and pd.read_csv ----

\* the text of an integer and the text of a float (its repr, which names the
\* float uniquely); an int 0 and a float 0.0 are the same number
IntText(i) == <<"int", i>>

\* the float written as '{:0.0f}' writes it, rounded half to even
FloatTextRounded(x) ==
    <<"float", IF 2 * x.num > x.den THEN 1 ELSE 0, 1>>

FloatText(x) == <<"float", x.num, x.den>>

ParseInt(t) == t[2]

ParseFloat(t) == [num |-> t[2], den |-> t[3]]

\* df.to_csv(output_table, index_label='Base Position'): a header line, then
\* one line per row: the row's index label, then the columns in order
ToCsv(df, index_label) ==
    <<  <<index_label>> \o Alphabet  >> \o
    [r \in 1..NRows(df) |->
        <<IntText(df.index[r])>> \o
        [k \in 1..Len(Alphabet) |-> FloatText(df.data[Alphabet[k]][r])]]

\* pd.read_csv(table_input, index_col=0): the first column is the index, the
\* other columns are named by the header line
ReadCsv(file) ==
    LET header == file[1]
        n == Len(file) - 1
        col(b) == CHOOSE k \in 2..Len(header) : header[k] = b
    IN  [index |-> [r \in 1..n |-> ParseInt(file[r + 1][1])],
         data  |-> [b \in {header[k] : k \in 2..Len(header)} |->
                       [r \in 1..n |-> ParseFloat(file[r + 1][col(b)])]]]

\* ---- positional selection: DataFrame.iloc ----

\* the rows (1-based row numbers, in order) of a frame
Take(df, rows) ==
    [index |-> [j \in 1..Len(rows) |-> df.index[rows[j]]],
     data  |-> [b \in DOMAIN df.data |->
                   [j \in 1..Len(rows) |-> df.data[b][rows[j]]]]]

\* a slice bound as Python clamps it for a sequence of length n
SliceBound(k, n) ==
    LET m == IF k < 0 THEN k + n ELSE k
    IN  IF m < 0 THEN 0 ELSE IF m > n THEN n ELSE m

\* df.iloc[start:stop]
IlocSlice(df, start, stop) ==
    LET s == SliceBound(start, NRows(df))
        e == SliceBound(stop, NRows(df))
    IN  Take(df, [j \in 1..(IF e > s THEN e - s ELSE 0) |-> s + j])

\* df.iloc[positions] raises IndexError when a position is out of bounds
IlocListRaises(df, positions) ==
    \E j \in 1..Len(positions) :
        positions[j] >= NRows(df) \/ positions[j] < -NRows(df)

\* df.iloc[positions], positions a list
IlocList(df, positions) ==
    Take(df, [j \in 1..Len(positions) |->
                 IF positions[j] < 0 THEN positions[j] + NRows(df) + 1
                 ELSE positions[j] + 1])

\* extract_specific_positions(df, positions)
ExtractRaises(df, positions) ==
    Len(positions) # 2 /\ IlocListRaises(df, positions)

\* the extraction with the slice end left exclusive
ExtractExclusiveEnd(df, positions) ==
    IF Len(positions) = 2
    THEN IlocSlice(df, positions[1], positions[2])
    ELSE IlocList(df, positions)

extract_specific_positions(df, positions) ==
    IF Len(positions) = 2
    THEN IlocSlice(df, positions[1], positions[2] + 1)
    ELSE IlocList(df, positions)

\* [pos - 1 for pos in specific_positions]
ZeroBased(positions) == [j \in 1..Len(positions) |-> positions[j] - 1]

\* the values -s may carry: 1-based positions up to MaxN in any order, with
\* repeats, and lists that end one past MaxN
PositionLists ==
    {p \in UNION {[1..k -> 1..(MaxN + 1)] : k \in 1..MaxPos} :
        \A j \in 1..(Len(p) - 1) : p[j] <= MaxN}

\* base_frequencies.iloc[:n_bases] when n_bases < len(base_frequencies)
Truncate(df, n) == IF n < NRows(df) THEN IlocSlice(df, 0, n) ELSE df

\* ---- state ----

VARIABLES
    prog,               \* the script that runs: "tabulator" or "aggregator"
    pc,                 \* where the run stands
    error,              \* the exception that ended the run, "" if none
    handles,            \* the file handles that are open
    mode,               \* "fastq" (-i) or "table" (--table_input)
    n_bases,            \* --num_bases
    reads,              \* the records SeqIO.parse has yielded so far
    base_counts,        \* parse_fastq: base -> per-position count
    total_counts,       \* parse_fastq: per-position count of counted bases
    base_frequencies,   \* main: the frequency table
    csv,                \* the file <output_prefix>.csv, NoFile if absent
    written,            \* the output files this run has written
    specific_positions, \* -s, <<>> if not given
    positions_data,     \* main: the sub-range table
    shown,              \* main: <<start_pos, end_pos>> of the sub-range chart
    interactive,        \* --interactive
    entries,            \* the directory entries listed so far, with content
    lines,              \* parse_final_out: the lines of the file last read
    combined_data,      \* process_directory: <<column_name, file_data>> pairs
    columns_order,      \* process_directory: None or the first file's keys
    df                  \* process_directory: the frame returned

tabVars == <<mode, n_bases, reads, base_counts, total_counts, base_frequencies,
             csv, written, specific_positions, positions_data, shown,
             interactive>>

aggVars == <<entries, lines, combined_data, columns_order, df>>

vars == <<prog, pc, error, handles, tabVars, aggVars>>

NoFile == <<>>

\* columns_order is None or a list
None == [is_none |-> TRUE, list |-> <<>>]

Some(list) == [is_none |-> FALSE, list |-> list]

NoShown == <<0, 0>>

\* ---- stat_base_content.py : a run of main ----

TabLocalsInit ==
    /\ reads = <<>>
    /\ base_counts = [b \in Bases |-> <<>>]
    /\ total_counts = <<>>
    /\ base_frequencies = NoFrame
    /\ written = {}
    /\ specific_positions = <<>>
    /\ positions_data = NoFrame
    /\ shown = NoShown
    /\ interactive = FALSE

AggLocalsInit ==
    /\ entries = <<>>
    /\ lines = <<>>
    /\ combined_data = <<>>
    /\ columns_order = None
    /\ df = NoFrame

InitTabulator ==
    /\ prog = "tabulator"
    /\ pc = "start"
    /\ error = ""
    /\ handles = {}
    /\ mode \in {"fastq", "table"}
    /\ n_bases \in 0..MaxN
    /\ csv = NoFile
    /\ TabLocalsInit
    /\ AggLocalsInit

Abort(e) ==
    /\ pc' = "aborted"
    /\ error' = e

\* parse_fastq, lines 31-38: the counters and the handle (plain or gzip)
OpenFastq ==
    /\ prog = "tabulator" /\ pc = "start" /\ mode = "fastq"
    /\ base_counts' = [b \in Bases |-> Zeros(n_bases)]
    /\ total_counts' = Zeros(n_bases)
    /\ handles' = handles \cup {"fastq"}
    /\ pc' = "parsing"
    /\ UNCHANGED <<prog, error, mode, n_bases, reads, base_frequencies, csv,
                   written, specific_positions, positions_data, shown,
                   interactive, aggVars>>

\* open raises (no such file): no handle was acquired
OpenFastqRaises ==
    /\ prog = "tabulator" /\ pc = "start" /\ mode = "fastq"
    /\ Abort("FileNotFoundError")
    /\ UNCHANGED <<prog, handles, tabVars, aggVars>>

\* one iteration of the loop of line 41
ReadRecord ==
    /\ prog = "tabulator" /\ pc = "parsing"
    /\ Len(reads) < MaxReads
    /\ \E sequence \in Records :
        /\ reads' = Append(reads, sequence)
        /\ base_counts' = TallyCounts(base_counts, sequence, n_bases)
        /\ total_counts' = TallyTotal(total_counts, sequence, n_bases)
    /\ UNCHANGED <<prog, pc, error, handles, mode, n_bases, base_frequencies,
                   csv, written, specific_positions, positions_data, shown,
                   interactive, aggVars>>

\* the handle left open: no with block around the reads
LeaveOpen(h) == handles

\* the handle's __exit__ at the end of the with block (lines 40 and 18)
CloseHandle(h) == handles \ {h}

\* SeqIO.parse raises while reading (bad gzip data, malformed record): the
\* with block is left through the exception and main is not resumed
ReadRaises ==
    /\ prog = "tabulator" /\ pc = "parsing"
    /\ handles' = CloseHandle("fastq")
    /\ Abort("ValueError")
    /\ UNCHANGED <<prog, tabVars, aggVars>>

\* end of the file: the with block ends, lines 50-55 build the table
ParseReturns ==
    /\ prog = "tabulator" /\ pc = "parsing"
    /\ handles' = CloseHandle("fastq")
    /\ base_frequencies' =
          DataFrame(BaseFreqs(base_counts, total_counts), n_bases)
    /\ pc' = "parsed"
    /\ UNCHANGED <<prog, error, mode, n_bases, reads, base_counts,
                   total_counts, csv, written, specific_positions,
                   positions_data, shown, interactive, aggVars>>

\* main, line 177; the locals of parse_fastq are gone
WriteTable ==
    /\ prog = "tabulator" /\ pc = "parsed"
    /\ csv' = ToCsv(base_frequencies, "Base Position")
    /\ written' = written \cup {"csv"}
    /\ reads' = <<>>
    /\ base_counts' = [b \in Bases |-> <<>>]
    /\ total_counts' = <<>>
    /\ pc' = "loaded"
    /\ UNCHANGED <<prog, error, handles, mode, n_bases, base_frequencies,
                   specific_positions, positions_data, shown, interactive,
                   aggVars>>

\* to_csv raises (the output path cannot be written)
WriteTableRaises ==
    /\ prog = "tabulator" /\ pc = "parsed"
    /\ Abort("OSError")
    /\ reads' = <<>>
    /\ base_counts' = [b \in Bases |-> <<>>]
    /\ total_counts' = <<>>
    /\ UNCHANGED <<prog, handles, mode, n_bases, base_frequencies, csv,
                   written, specific_positions, positions_data, shown,
                   interactive, aggVars>>

\* main, lines 172-174
LoadFrame(file, n) == Truncate(ReadCsv(file), n)

LoadTable ==
    /\ prog = "tabulator" /\ pc = "start" /\ mode = "table"
    /\ csv # NoFile
    /\ base_frequencies' = LoadFrame(csv, n_bases)
    /\ pc' = "loaded"
    /\ UNCHANGED <<prog, error, handles, mode, n_bases, reads, base_counts,
                   total_counts, csv, written, specific_positions,
                   positions_data, shown, interactive, aggVars>>

\* read_csv raises: the table file does not exist
LoadTableRaises ==
    /\ prog = "tabulator" /\ pc = "start" /\ mode = "table"
    /\ csv = NoFile
    /\ Abort("FileNotFoundError")
    /\ UNCHANGED <<prog, handles, tabVars, aggVars>>

\* start_pos, end_pos of line 183
Shown(zero_based) ==
    <<zero_based[1] + 1, zero_based[Len(zero_based)] + 1>>

\* main, lines 180-185 when -s is given: the sub-range chart is written, or
\* savefig raises
PlotSpecific ==
    /\ prog = "tabulator" /\ pc = "loaded"
    /\ \E given \in PositionLists :
        LET zero_based == ZeroBased(given) IN
        /\ ~ExtractRaises(base_frequencies, zero_based)
        /\ specific_positions' = given
        /\ positions_data' =
              extract_specific_positions(base_frequencies, zero_based)
        /\ shown' = Shown(zero_based)
    /\ \/ /\ written' = written \cup {"specific_png"}
          /\ pc' = "specific_done"
          /\ UNCHANGED error
       \/ /\ Abort("OSError")
          /\ UNCHANGED written
    /\ UNCHANGED <<prog, handles, mode, n_bases, reads, base_counts,
                   total_counts, base_frequencies, csv, interactive, aggVars>>

\* main, line 182: iloc raises on a position that is out of bounds
PlotSpecificRaises ==
    /\ prog = "tabulator" /\ pc = "loaded"
    /\ \E given \in PositionLists :
        /\ ExtractRaises(base_frequencies, ZeroBased(given))
        /\ specific_positions' = given
    /\ Abort("IndexError")
    /\ UNCHANGED <<prog, handles, mode, n_bases, reads, base_counts,
                   total_counts, base_frequencies, csv, written,
                   positions_data, shown, interactive, aggVars>>

\* the full-range chart drawn only when no sub-range chart was
PlotStaticUnlessSpecific ==
    /\ prog = "tabulator"
    /\ pc \in {"loaded", "specific_done"}
    /\ written' = IF pc = "loaded" THEN written \cup {"png"} ELSE written
    /\ pc' = "static_done"
    /\ UNCHANGED <<prog, error, handles, mode, n_bases, reads, base_counts,
                   total_counts, base_frequencies, csv, specific_positions,
                   positions_data, shown, interactive, aggVars>>

\* main, line 188, reached from line 180 when -s is not given and from line
\* 185 when it is
PlotStatic ==
    /\ prog = "tabulator"
    /\ pc \in {"loaded", "specific_done"}
    /\ \/ /\ written' = written \cup {"png"}
          /\ pc' = "static_done"
          /\ UNCHANGED error
       \/ /\ Abort("OSError")       \* savefig raises
          /\ UNCHANGED written
    /\ UNCHANGED <<prog, handles, mode, n_bases, reads, base_counts,
                   total_counts, base_frequencies, csv, specific_positions,
                   positions_data, shown, interactive, aggVars>>

\* main, lines 191-192
PlotInteractive ==
    /\ prog = "tabulator" /\ pc = "static_done"
    /\ \E requested \in BOOLEAN :
        /\ interactive' = requested
        /\ IF requested
           THEN \/ /\ written' = written \cup {"html"}
                   /\ pc' = "done"
                   /\ UNCHANGED error
                \/ /\ Abort("OSError")   \* write_html raises
                   /\ UNCHANGED written
           ELSE /\ pc' = "done"
                /\ UNCHANGED <<error, written>>
    /\ UNCHANGED <<prog, handles, mode, n_bases, reads, base_counts,
                   total_counts, base_frequencies, csv, specific_positions,
                   positions_data, shown, aggVars>>

\* a later invocation with --table_input naming the table an earlier run wrote
RunOnTable ==
    /\ prog = "tabulator" /\ pc \in {"done", "aborted"}
    /\ csv # NoFile
    /\ pc' = "start"
    /\ error' = ""
    /\ mode' = "table"
    /\ n_bases' \in 0..MaxN
    /\ reads' = <<>>
    /\ base_counts' = [b \in Bases |-> <<>>]
    /\ total_counts' = <<>>
    /\ base_frequencies' = NoFrame
    /\ written' = {}
    /\ specific_positions' = <<>>
    /\ positions_data' = NoFrame
    /\ shown' = NoShown
    /\ interactive' = FALSE
    /\ UNCHANGED <<prog, handles, csv, aggVars>>

\* ---- star_format.py : values ----

\* A line is the sequence of its tokens: a run of whitespace " ", the
\* delimiter "|", or a piece of text. The lines a summary file is made of
\* (each has at most one "|", as line 33 needs):
LinePool ==
    { <<" ", "Uniquely mapped reads %", " ", "|", " ", "92.5%">>,
      <<"Number of input reads", " ", "|", " ", "1000", " ">>,
      <<"Uniquely mapped reads %", "|", "88.1%">>,
      <<" ", "UNIQUE READS:">> }

FileContents == SeqsUpTo(LinePool, MaxLines)

Headers == {"UNIQUE READS:", "MULTI-MAPPING READS:", "UNMAPPED READS:",
            "CHIMERIC READS:"}

RECURSIVE LStrip(_)
LStrip(t) == IF t # <<>> /\ t[1] = " " THEN LStrip(Tail(t)) ELSE t

RECURSIVE RStrip(_)
RStrip(t) ==
    IF t # <<>> /\ t[Len(t)] = " " THEN RStrip(SubSeq(t, 1, Len(t) - 1))
    ELSE t

\* str.strip()
Strip(t) == RStrip(LStrip(t))

\* line.startswith(h) for one of the four headers
StartsWithHeader(t) == t # <<>> /\ t[1] \in Headers

\* "|" in line
HasPipe(t) == \E k \in DOMAIN t : t[k] = "|"

\* key, value = line.split("|") and the two strips of lines 34-35
SplitPipe(t) ==
    LET k == CHOOSE j \in DOMAIN t : t[j] = "|"
    IN  <<Strip(SubSeq(t, 1, k - 1)), Strip(SubSeq(t, k + 1, Len(t)))>>

\* lines 26-37: parsed_data, the (key, value) pairs in line order
RECURSIVE ParsedData(_)
ParsedData(ls) ==
    IF ls = <<>> THEN <<>>
    ELSE LET line == Strip(ls[1]) IN
         IF StartsWithHeader(line) THEN ParsedData(Tail(ls))
         ELSE IF HasPipe(line)
              THEN <<SplitPipe(line)>> \o ParsedData(Tail(ls))
              ELSE ParsedData(Tail(ls))

\* keys_order: appended to together with parsed_data
KeysOrder(parsed_data) ==
    [j \in 1..Len(parsed_data) |-> parsed_data[j][1]]

\* dict(parsed_data): the last pair of a key gives its value
Dict(parsed_data) ==
    [k \in {parsed_data[j][1] : j \in 1..Len(parsed_data)} |->
        LET last == CHOOSE j \in 1..Len(parsed_data) :
                       /\ parsed_data[j][1] = k
                       /\ \A i \in (j + 1)..Len(parsed_data) :
                              parsed_data[i][1] # k
        IN  parsed_data[last][2]]

\* parse_final_out, lines 21-39, of the lines read
parse_final_out(ls) ==
    LET parsed_data == ParsedData(ls)
    IN  <<Dict(parsed_data), KeysOrder(parsed_data)>>

\* A file name is its stem and its dot-separated suffixes: "<stem>.final.out"
SummarySuffix == <<"final", "out">>

OtherSuffix == <<"progress", "out">>

\* filename.endswith(".final.out")
EndsWithSummary(fn) ==
    /\ Len(fn.suffixes) >= 2
    /\ SubSeq(fn.suffixes, Len(fn.suffixes) - 1, Len(fn.suffixes))
          = SummarySuffix

\* os.path.splitext(filename)[0]: the name without its last suffix
ColumnName(fn) ==
    IF fn.suffixes = <<>> THEN fn
    ELSE [stem |-> fn.stem,
          suffixes |-> SubSeq(fn.suffixes, 1, Len(fn.suffixes) - 1)]

\* combined_data[column_name] = file_data, the dict kept as the sequence of
\* its items in insertion order
DictSet(items, key, value) ==
    IF \E j \in 1..Len(items) : items[j][1] = key
    THEN [j \in 1..Len(items) |->
             IF items[j][1] = key THEN <<key, value>> ELSE items[j]]
    ELSE Append(items, <<key, value>>)

\* the keys of the inner dicts in first-seen order
RECURSIVE UnionKeys(_, _)
UnionKeys(seen, keys) ==
    IF keys = <<>> THEN seen
    ELSE IF \E j \in 1..Len(seen) : seen[j] = keys[1]
         THEN UnionKeys(seen, Tail(keys))
         ELSE UnionKeys(Append(seen, keys[1]), Tail(keys))

RECURSIVE Concat(_)
Concat(ss) == IF ss = <<>> THEN <<>> ELSE ss[1] \o Concat(Tail(ss))

NaN == <<"NaN">>

\* the frame with the given row labels over the columns of combined_data
Frame(items, index) ==
    [index   |-> index,
     columns |-> [c \in 1..Len(items) |-> items[c][1]],
     cell    |-> [r \in 1..Len(index) |-> [c \in 1..Len(items) |->
                    IF index[r] \in DOMAIN items[c][2]
                    THEN items[c][2][index[r]] ELSE NaN]]]

\* the keys of a dict in insertion order: keys_order without its repeats
DictKeys(keys_order) == UnionKeys(<<>>, keys_order)

\* line 60, pd.DataFrame(combined_data): one column per item, the rows the
\* union of the inner dicts' keys
AggFrame(items, key_lists) ==
    Frame(items, UnionKeys(<<>>, Concat(key_lists)))

\* line 64, df.reindex(columns_order): reindex(None) leaves the frame as it is
Reindex(items, frame, order) ==
    IF order = None THEN frame ELSE Frame(items, order.list)

\* ---- star_format.py : a run of process_directory ----

InitAggregator ==
    /\ prog = "aggregator"
    /\ pc = "listing"
    /\ error = ""
    /\ handles = {}
    /\ mode = "none"
    /\ n_bases = 0
    /\ csv = NoFile
    /\ TabLocalsInit
    /\ AggLocalsInit

FileName(i, suffixes) == [stem |-> i, suffixes |-> suffixes]

\* os.listdir raises: the directory does not exist
ListRaises ==
    /\ prog = "aggregator" /\ pc = "listing" /\ entries = <<>>
    /\ Abort("FileNotFoundError")
    /\ UNCHANGED <<prog, handles, tabVars, aggVars>>

\* lines 48-49: the next entry is no summary file
SkipEntry ==
    /\ prog = "aggregator" /\ pc = "listing"
    /\ Len(entries) < MaxFiles
    /\ LET filename == FileName(Len(entries) + 1, OtherSuffix) IN
        /\ ~EndsWithSummary(filename)
        /\ entries' = Append(entries, [name |-> filename, content |-> <<>>])
    /\ UNCHANGED <<prog, pc, error, handles, tabVars, lines, combined_data,
                   columns_order, df>>

\* lines 48-51 and 18: the next entry is a summary file, which is opened
OpenSummary ==
    /\ prog = "aggregator" /\ pc = "listing"
    /\ Len(entries) < MaxFiles
    /\ EndsWithSummary(FileName(Len(entries) + 1, SummarySuffix))
    /\ handles' = handles \cup {"final_out"}
    /\ pc' = "reading"
    /\ UNCHANGED <<prog, error, tabVars, aggVars>>

\* the order taken from every file: the last file's order stays
LastColumnsOrder(order, keys_order) == Some(keys_order)

\* lines 56-57
NextColumnsOrder(order, keys_order) ==
    IF order = None THEN Some(keys_order) ELSE order

\* lines 51-57 for a file of the given lines: <<combined_data, columns_order>>
Combine(combined, order, filename, content) ==
    LET parsed == parse_final_out(content)
        file_data == parsed[1]
        keys_order == parsed[2]
        column_name == ColumnName(filename)
    IN  <<DictSet(combined, column_name,
                  [data |-> file_data, keys |-> DictKeys(keys_order)]),
          NextColumnsOrder(order, keys_order)>>

\* line 19 and the end of the with block, then lines 21-39 and 52-57
ReadSummary ==
    /\ prog = "aggregator" /\ pc = "reading"
    /\ handles' = CloseHandle("final_out")
    /\ \E content \in FileContents :
        LET filename == FileName(Len(entries) + 1, SummarySuffix)
            combined == Combine(combined_data, columns_order, filename, content)
        IN  /\ lines' = content
            /\ entries' =
                  Append(entries, [name |-> filename, content |-> content])
            /\ combined_data' = combined[1]
            /\ columns_order' = combined[2]
    /\ pc' = "listing"
    /\ UNCHANGED <<prog, error, tabVars, df>>

\* f.readlines() raises (undecodable bytes): the with block is left through
\* the exception
ReadSummaryRaises ==
    /\ prog = "aggregator" /\ pc = "reading"
    /\ handles' = CloseHandle("final_out")
    /\ Abort("UnicodeDecodeError")
    /\ UNCHANGED <<prog, tabVars, aggVars>>

\* lines 60-64 for the combined data
ResultFrame(combined, order) ==
    LET items == [c \in 1..Len(combined) |->
                     <<combined[c][1], combined[c][2].data>>]
        key_lists == [c \in 1..Len(combined) |-> combined[c][2].keys]
    IN  Reindex(items, AggFrame(items, key_lists), order)

\* the listing is exhausted: lines 60-66
ReturnFrame ==
    /\ prog = "aggregator" /\ pc = "listing"
    /\ df' = ResultFrame(combined_data, columns_order)
    /\ pc' = "done"
    /\ UNCHANGED <<prog, error, handles, tabVars, entries, lines,
                   combined_data, columns_order>>

AggNext ==
    \/ ListRaises \/ SkipEntry \/ OpenSummary \/ ReadSummary
    \/ ReadSummaryRaises \/ ReturnFrame

TabNext ==
    \/ OpenFastq \/ OpenFastqRaises \/ ReadRecord \/ ReadRaises
    \/ ParseReturns \/ WriteTable \/ WriteTableRaises \/ LoadTable
    \/ LoadTableRaises \/ PlotSpecific \/ PlotSpecificRaises \/ PlotStatic
    \/ PlotInteractive \/ RunOnTable

Init == InitTabulator \/ InitAggregator

Next == TabNext \/ AggNext

Spec == Init /\ [][Next]_vars

\* ======================= the claims =======================

InTab == prog = "tabulator"

InAgg == prog = "aggregator"

\* the 0-based position i of the r-th record holds the character ch
HasAt(r, i, ch) == Len(reads[r]) > i /\ reads[r][i + 1] = ch

Observed(i, b) == Cardinality({r \in 1..Len(reads) : HasAt(r, i, b)})

ObservedAny(i) ==
    Cardinality({r \in 1..Len(reads) : \E b \in Bases : HasAt(r, i, b)})

\* C1: when parse_fastq returns, the table has n_bases rows and, at every
\* position i < n_bases and for every base b, the frequency is the number of
\* records whose i-th character is b divided by the number of records whose
\* i-th character is one of A,T,C,G,N, and is 0 when that number is 0.
C1_TallyMatchesReads ==
    (InTab /\ pc = "parsed") =>
        /\ NRows(base_frequencies) = n_bases
        /\ DOMAIN base_frequencies.data = Bases
        /\ \A i \in 0..(n_bases - 1) : \A b \in Bases :
            LET f == base_frequencies.data[b][i + 1] IN
            IF ObservedAny(i) = 0 THEN f = Zero
            ELSE f.den > 0 /\ f.num * ObservedAny(i) = Observed(i, b) * f.den

\* a table of two positions: A and T share the first, and the second was
\* reached by a record, with a character outside the alphabet only
C1_Witness ==
    /\ InTab /\ pc = "parsed" /\ n_bases = 2
    /\ base_frequencies.data["A"][1] = [num |-> 1, den |-> 2]
    /\ base_frequencies.data["T"][1] = [num |-> 1, den |-> 2]
    /\ \E r \in 1..Len(reads) : HasAt(r, 1, "a")
    /\ \A b \in Bases : base_frequencies.data[b][2] = Zero

RECURSIVE SumOver(_, _)
SumOver(f, S) ==
    IF S = {} THEN 0
    ELSE LET x == CHOOSE y \in S : TRUE IN f[x] + SumOver(f, S \ {x})

FracAdd(x, y) == Quot(x.num * y.den + y.num * x.den, x.den * y.den)

RECURSIVE FracSum(_, _)
FracSum(f, S) ==
    IF S = {} THEN Zero
    ELSE LET x == CHOOSE y \in S : TRUE
         IN  FracAdd(f[x], FracSum(f, S \ {x}))

One == [num |-> 1, den |-> 1]

\* C2: after every record parse_fastq has processed, the five counters of a
\* position sum to the position's total; in the table returned, the five
\* frequencies of a position with at least one observation sum to 1.
C2_FrequenciesSumToOne ==
    /\ (InTab /\ pc \in {"parsing", "parsed"}) =>
          \A i \in 1..n_bases :
              SumOver([b \in Bases |-> base_counts[b][i]], Bases)
                  = total_counts[i]
    /\ (InTab /\ pc = "parsed") =>
          \A i \in 1..n_bases :
              total_counts[i] > 0 =>
                  FracSum([b \in Bases |-> base_frequencies.data[b][i]], Bases)
                      = One

\* two bases observed at one position, after a record with a character
\* outside the alphabet at that position
C2_Witness ==
    /\ InTab /\ pc = "parsed" /\ n_bases >= 1 /\ Len(reads) = 2
    /\ total_counts[1] = 1
    /\ HasAt(1, 0, "a")
    /\ base_counts["T"][1] = 1

\* the summary files among the entries, in processing order
IsSummary(e) == EndsWithSummary(e.name)

SummaryFiles == SelectSeq(entries, IsSummary)

\* the keys of a file never repeat (the MetricRecord invariant)
NoRepeat(keys) == \A i, j \in 1..Len(keys) : keys[i] = keys[j] => i = j

UniqueKeys(content) == NoRepeat(parse_final_out(content)[2])

\* the (key, value) pair of each line of the pool, <<>> for a line without
MetricOf == [line \in LinePool |-> ParsedData(<<line>>)]

\* the rows whose key is the key of a metric line that both files carry
SharedRows(index, one, other) ==
    {r \in 1..Len(index) :
        \E i \in 1..Len(one) : \E j \in 1..Len(other) :
            /\ one[i] = other[j]
            /\ MetricOf[one[i]] # <<>>
            /\ MetricOf[one[i]][1][1] = index[r]}

ValidFiles ==
    \A c \in 1..Len(SummaryFiles) :
        /\ ParsedData(SummaryFiles[c].content) # <<>>
        /\ UniqueKeys(SummaryFiles[c].content)

\* C4: for summary files that have metric lines and repeat no key, the rows
\* of the combined table are the keys of all processed files in first-seen
\* order, and the cell of a key absent from a file is empty.
C4_RowsAreUnionOfKeys ==
    (InAgg /\ pc = "done" /\ ValidFiles) =>
        LET files == SummaryFiles
            all == UnionKeys(<<>>,
                      Concat([c \in 1..Len(files) |->
                                 parse_final_out(files[c].content)[2]]))
        IN  /\ df.index = all
            /\ \A r \in 1..Len(df.index) : \A c \in 1..Len(files) :
                  df.index[r] \notin DOMAIN parse_final_out(files[c].content)[1]
                      => df.cell[r][c] = NaN

\* process_directory, lines 45-64, over a listing
RECURSIVE ProcessAll(_, _, _)
ProcessAll(combined, order, files) ==
    IF files = <<>> THEN ResultFrame(combined, order)
    ELSE LET next == Combine(combined, order, files[1].name, files[1].content)
         IN  ProcessAll(next[1], next[2], Tail(files))

HasMetricLines(e) == IsSummary(e) /\ ParsedData(e.content) # <<>>

\* C5: the rows of the combined table, and the values in the columns of the
\* files that have key | value lines, are those of the table of these files
\* alone, wherever a file without such lines stands in the listing.
C5_EmptyFileIsSkipped ==
    (InAgg /\ pc = "done") =>
        LET ref == ProcessAll(<<>>, None, SelectSeq(entries, HasMetricLines))
        IN  /\ df.index = ref.index
            /\ \A c \in 1..Len(ref.columns) :
                  \E d \in 1..Len(df.columns) :
                      /\ df.columns[d] = ref.columns[c]
                      /\ \A r \in 1..Len(ref.index) :
                            df.cell[r][d] = ref.cell[r][c]

\* the outputs asked of the run, in the order main writes them
Requested ==
    (IF mode = "fastq" THEN <<"csv">> ELSE <<>>)
    \o (IF specific_positions # <<>> THEN <<"specific_png">> ELSE <<>>)
    \o <<"png">>
    \o (IF interactive THEN <<"html">> ELSE <<>>)

FirstOf(s, k) == {s[j] : j \in 1..k}

\* C6 as stated: a run that aborted has written none of its output files,
\* and a run that ended has written all that were asked.
C6_AllOrNothing ==
    /\ (InTab /\ pc = "aborted") => written = {}
    /\ (InTab /\ pc = "done") => written = FirstOf(Requested, Len(Requested))

\* C6 amended: a run that ended has written all the outputs asked of it; a
\* run that aborted has written the outputs of the steps before the failing
\* one and keeps them, and has written none of a later step.
C6_WrittenIsPrefix ==
    /\ (InTab /\ pc = "done") => written = FirstOf(Requested, Len(Requested))
    /\ (InTab /\ pc = "aborted") =>
          \E k \in 0..(Len(Requested) - 1) : written = FirstOf(Requested, k)

\* the table was written, then -s named a position past the table
C6_Witness ==
    /\ InTab /\ pc = "aborted" /\ error = "IndexError"
    /\ mode = "fastq" /\ written = {"csv"}

IndexColumn(file) == [r \in 1..(Len(file) - 1) |-> file[r + 1][1]]

\* C8: the table file written in FASTQ mode has a header line and N data
\* lines, and its first column is the 1-based position index: the rows are
\* labelled 1..N in order.
C8_RowsLabelledFromOne ==
    (InTab /\ mode = "fastq" /\ "csv" \in written) =>
        /\ Len(csv) = n_bases + 1
        /\ IndexColumn(csv) = [r \in 1..n_bases |-> IntText(r)]

\* C9: once parse_fastq or parse_final_out has returned or raised, the handle
\* it opened is closed: a handle is open only while the file is being read.
C9_HandlesReleased ==
    pc \notin {"parsing", "reading"} => handles = {}

\* a decode error after a record was read
C9_Witness ==
    /\ InTab /\ pc = "aborted" /\ error = "ValueError"
    /\ Len(reads) > 0 /\ handles = {}

\* the rows (1-based) the positions given with -s ask for
AskedRows(p) ==
    IF Len(p) = 2 THEN [j \in 1..(p[2] - p[1] + 1) |-> p[1] + j - 1] ELSE p

\* the sub-range step has run for the positions p, which lie in 1..top
SubRangeAsked(top) ==
    /\ InTab /\ specific_positions # <<>>
    /\ \A j \in 1..Len(specific_positions) : specific_positions[j] \in 1..top
    /\ Len(specific_positions) = 2 => specific_positions[1] <= specific_positions[2]

SubRangeExact ==
    /\ error # "IndexError"
    /\ \A j \in 1..Len(AskedRows(specific_positions)) :
          AskedRows(specific_positions)[j] \in 1..NRows(base_frequencies)
    /\ positions_data = Take(base_frequencies, AskedRows(specific_positions))
    /\ shown = <<specific_positions[1],
                 specific_positions[Len(specific_positions)]>>

\* C10 as stated: for positions in 1..N the sub-range table is exactly the
\* rows asked for, and the chart shows p1 and pk.
C10_ExactWithinN == SubRangeAsked(n_bases) => SubRangeExact

\* C10 amended: for positions in 1..L, L the number of rows of the table main
\* holds (N in FASTQ mode, min(N, rows of the file) in table mode), the
\* sub-range table is exactly the rows asked for, in the given order (two
\* values start <= end: the rows start..end), and the chart shows p1 and pk.
C10_ExactWithinTable == SubRangeAsked(NRows(base_frequencies)) => SubRangeExact

\* three positions out of order, one of them twice
C10_Witness ==
    /\ InTab /\ pc = "specific_done"
    /\ specific_positions = <<2, 1, 2>>
    /\ positions_data.index = <<1, 0, 1>>

====
